---- MODULE Spec2Model ----
(***************************************************************************)
(* Model of the chaptersaw extraction/merge pipeline                       *)
(* (src/src/chaptersaw/extractor.py): ChapterExtractor.extract_and_merge   *)
(* in sequential and in parallel mode, and extract_to_separate_files       *)
(* (Spec); of the extraction part of cli.main (SpecCli); of the chapter    *)
(* filters (SpecFilter); and of set_default_track and                      *)
(* set_default_tracks_by_language (SpecTracks).                            *)
(* External processes (ffprobe, ffmpeg cut, ffmpeg concat, mkvpropedit)    *)
(* and the file system are the environment: each invocation's outcome is   *)
(* chosen nondeterministically among the outcomes the code distinguishes.  *)
(***************************************************************************)
EXTENDS Integers, Sequences, FiniteSets, TLC

\* ------------------------------------------------------------- bounds
\* Longest input_files list explored.
MaxFiles == 2
\* Most chapters the probes of one run return in total.
MaxChapters == 3

\* ------------------------------------------------------------- values
\* Input paths: two files with the same stem in different directories and
\* one with another stem and extension.
Paths ==
  { [dir |-> "a", stem |-> "x", ext |-> ".mkv"],
    [dir |-> "b", stem |-> "x", ext |-> ".mkv"],
    [dir |-> "a", stem |-> "y", ext |-> ".mp4"] }

\* Python's None for an optional Path and for an optional str.
NoPath == [dir |-> "", stem |-> "", ext |-> ""]
NoMsg == "None"

\* The output_file argument of extract_and_merge.
OutputPath == [dir |-> "out", stem |-> "merged", ext |-> ".mkv"]

\* Chapter titles a probe may report, as sequences of characters.
Titles == { <<"E", "p">>, <<"C", "r">> }

\* The filter of the modelled runs: keyword "ep", case-insensitive, include.
Keyword == <<"e", "p">>
CaseSensitive == FALSE
Exclude == FALSE

\* The error classes the pipeline's handlers tell apart.
CEE == "ChapterExtractionError"
OtherExc == "Exception"

\* ------------------------------------------------------------- helpers
\* str.lower() on the alphabet of Titles.
Lower(c) ==
  CASE c = "E" -> "e"
    [] c = "P" -> "p"
    [] c = "C" -> "c"
    [] c = "R" -> "r"
    [] OTHER -> c

LowerStr(s) == [i \in 1..Len(s) |-> Lower(s[i])]

\* Python's `kw in title` on strings.
Contains(kw, title) ==
  \E i \in 0..(Len(title) - Len(kw)) : SubSeq(title, i + 1, i + Len(kw)) = kw

\* One Chapter per probed title, index = 0-based position (get_chapters).
MkChapters(titles) ==
  [i \in 1..Len(titles) |-> [title |-> titles[i], index |-> i - 1]]

KeywordMatch(ch, keyword, case_sensitive) ==
  IF case_sensitive
    THEN Contains(keyword, ch.title)
    ELSE Contains(LowerStr(keyword), LowerStr(ch.title))

SeqToSet(s) == {s[i] : i \in 1..Len(s)}

\* [ch for ch in chapters if Test(ch)]
RECURSIVE FilterSeq(_, _)
FilterSeq(s, keep) ==
  IF s = <<>> THEN <<>>
  ELSE IF Head(s) \in keep THEN <<Head(s)>> \o FilterSeq(Tail(s), keep)
  ELSE FilterSeq(Tail(s), keep)

filter_chapters_by_keyword(chapters, keyword, case_sensitive, exclude) ==
  LET matches ==
        FilterSeq(chapters,
          {ch \in SeqToSet(chapters) : KeywordMatch(ch, keyword, case_sensitive)})
      matched_set == SeqToSet(matches)
  IN IF exclude
       THEN FilterSeq(chapters, SeqToSet(chapters) \ matched_set)
       ELSE matches

_filter_chapters(chapters) ==
  filter_chapters_by_keyword(chapters, Keyword, CaseSensitive, Exclude)

\* temp_path / f"{input_path.stem}_segment_{ch_idx}.mkv"
SegmentFile(input_path, ch_idx) ==
  input_path.stem \o "_segment_" \o ToString(ch_idx) \o ".mkv"

\* ExtractionResult(source_file=input_path) with the dataclass defaults.
NewResult(input_path) ==
  [ source_file |-> input_path,
    output_file |-> NoPath,
    chapters_found |-> 0,
    chapters_matched |-> 0,
    chapters_extracted |-> <<>>,
    success |-> TRUE,
    error_message |-> NoMsg ]

\* next(r for r in results if r.source_file == input_path): the position of
\* the first result with that source_file.
FindResult(rs, input_path) ==
  CHOOSE r \in 1..Len(rs) :
    /\ rs[r].source_file = input_path
    /\ \A q \in 1..(r - 1) : rs[q].source_file # input_path

\* Chapters probed so far in this run.
RECURSIVE SumFound(_)
SumFound(rs) ==
  IF rs = <<>> THEN 0 ELSE Head(rs).chapters_found + SumFound(Tail(rs))

\* The non-empty title lists a probe may return once `found` chapters have
\* been probed in the run.
ProbeTitles(found) ==
  UNION { [1..n -> Titles] : n \in 1..(MaxChapters - found) }

InputLists ==
  UNION { [1..n -> Paths] : n \in 0..MaxFiles }

\* ------------------------------------------------------------- state
VARIABLES
  mode,              \* "sequential" | "parallel" (extract_and_merge) | "separate"
  input_files,       \* the input_files argument
  pc,                \* position of the control thread
  raised,            \* exception class that left the call, or "none"
  idx,               \* files scanned so far (loop index of the scan)
  results,           \* list[ExtractionResult]
  file_chapters,     \* list[(input_path, matching)], with the input position
  total_matches,
  temp_dir,          \* "none" | "exists" | "deleted"
  fc_i,              \* sequential: position in file_chapters (1-based)
  ch_i,              \* ch_idx of the chapter extracted next
  all_segments,      \* segment list (merge: all_segments, separate: segments)
  tasks,             \* parallel: the task list
  task_state,        \* parallel: per task "pending" | "ok" | "failed" | "collected"
  segment_results,   \* parallel: dict global_idx -> segment
  extraction_errors, \* parallel: dict input_path -> message
  result,            \* separate: the ExtractionResult of the file in progress
  matching,          \* separate: the matched chapters of the file in progress
  scan_log,          \* log: what the scan met at each input position
  cut_calls,         \* log: _extract_segment invocations
  merge_calls,       \* log: _merge_segments invocations
  outputs_written,   \* output files a successful merge has produced
  exit_code,         \* cli.main: <<>> while running, then <<returned value>>
  call,              \* the arguments of a single method call under study
  ret                \* what that call has done and returned so far

vars ==
  << mode, input_files, pc, raised, idx, results, file_chapters, total_matches,
     temp_dir, fc_i, ch_i, all_segments, tasks, task_state, segment_results,
     extraction_errors, result, matching, scan_log, cut_calls, merge_calls,
     outputs_written, exit_code, call, ret >>

\* Variables outside the pipeline's own state.
outerVars == << exit_code, call, ret >>

\* No method call is under study.
NoCall == [fn |-> "none"]
NoRet == [raised |-> "none"]

Init ==
  /\ mode \in {"sequential", "parallel", "separate"}
  /\ input_files \in InputLists
  /\ pc = IF mode = "separate" THEN "enter" ELSE "scan"
  /\ raised = "none"
  /\ idx = 0
  /\ results = <<>>
  /\ file_chapters = <<>>
  /\ total_matches = 0
  /\ temp_dir = "none"
  /\ fc_i = 1
  /\ ch_i = 0
  /\ all_segments = <<>>
  /\ tasks = <<>>
  /\ task_state = <<>>
  /\ segment_results = <<>>
  /\ extraction_errors = <<>>
  /\ result = NewResult(NoPath)
  /\ matching = <<>>
  /\ scan_log = <<>>
  /\ cut_calls = {}
  /\ merge_calls = <<>>
  /\ outputs_written = {}
  /\ exit_code = <<>>
  /\ call = NoCall
  /\ ret = NoRet

\* Variant of TempAfterExit: the directory is left behind.
TempAfterExit_keep == temp_dir

\* Leaving a `with tempfile.TemporaryDirectory()` block deletes the directory.
TempAfterExit == IF temp_dir = "exists" THEN "deleted" ELSE temp_dir

\* The call is left by an exception of class exc.
Raise(exc) ==
  /\ pc' = "raised"
  /\ raised' = exc
  /\ temp_dir' = TempAfterExit

Scanning == pc = "scan" /\ idx < Len(input_files)

InputPath == input_files[idx + 1]

\* Variables of the extraction phase, untouched while scanning.
extractVars ==
  << fc_i, ch_i, all_segments, tasks, task_state, segment_results,
     extraction_errors, cut_calls, merge_calls, outputs_written >>

\* --------------------------------------------------- scan (both operations)
\* Variant of ScanNotFound: the missing file is skipped without a result.
ScanNotFound_skip ==
  /\ Scanning
  /\ scan_log' = Append(scan_log, "missing")
  /\ idx' = idx + 1
  /\ UNCHANGED << mode, input_files, pc, raised, results, file_chapters,
                  total_matches, temp_dir, result, matching, extractVars >>
  /\ UNCHANGED outerVars

\* Variant of ScanNotFound: the missing file ends the call with an exception.
ScanNotFound_raise ==
  /\ Scanning
  /\ scan_log' = Append(scan_log, "missing")
  /\ Raise(CEE)
  /\ UNCHANGED << mode, input_files, idx, results, file_chapters,
                  total_matches, result, matching, extractVars >>
  /\ UNCHANGED outerVars

\* `if not input_path.exists()`: a failed result is recorded, the loop goes on.
ScanNotFound ==
  /\ Scanning
  /\ scan_log' = Append(scan_log, "missing")
  /\ results' = Append(results,
       [NewResult(InputPath) EXCEPT !.success = FALSE,
                                    !.error_message = "File not found"])
  /\ idx' = idx + 1
  /\ UNCHANGED << mode, input_files, pc, raised, file_chapters, total_matches,
                  temp_dir, result, matching, extractVars >>
  /\ UNCHANGED outerVars

\* get_chapters raises ChapterExtractionError (the probe exits non-zero, its
\* output is no JSON, the file vanished): re-raised, the call is left.
ScanProbeError ==
  /\ Scanning
  /\ scan_log' = Append(scan_log, "probe_error")
  /\ Raise(CEE)
  /\ UNCHANGED << mode, input_files, idx, results, file_chapters,
                  total_matches, result, matching, extractVars >>
  /\ UNCHANGED outerVars

\* get_chapters raises anything else (OSError from the process launch,
\* KeyError or ValueError on a malformed chapter entry): recorded, loop goes on.
ScanProbeOther ==
  /\ Scanning
  /\ scan_log' = Append(scan_log, "probe_exception")
  /\ results' = Append(results,
       [NewResult(InputPath) EXCEPT !.success = FALSE,
                                    !.error_message = "probe exception"])
  /\ idx' = idx + 1
  /\ UNCHANGED << mode, input_files, pc, raised, file_chapters, total_matches,
                  temp_dir, result, matching, extractVars >>
  /\ UNCHANGED outerVars

\* Variant of ScanNoChapters: a file without chapters counts as a file without
\* matches and the scan goes on.
ScanNoChapters_continue ==
  /\ Scanning
  /\ scan_log' = Append(scan_log, "no_chapters")
  /\ results' = Append(results, NewResult(InputPath))
  /\ idx' = idx + 1
  /\ UNCHANGED << mode, input_files, pc, raised, file_chapters, total_matches,
                  temp_dir, result, matching, extractVars >>
  /\ UNCHANGED outerVars

\* The probe succeeds with no chapters: ChapterExtractionError leaves the call.
ScanNoChapters ==
  /\ Scanning
  /\ scan_log' = Append(scan_log, "no_chapters")
  /\ Raise(CEE)
  /\ UNCHANGED << mode, input_files, idx, results, file_chapters,
                  total_matches, result, matching, extractVars >>
  /\ UNCHANGED outerVars

\* The result of a file probed to `chapters` and filtered to `m`.
ScannedResult(input_path, chapters, m) ==
  [NewResult(input_path) EXCEPT !.chapters_found = Len(chapters),
                                !.chapters_matched = Len(m)]

\* extract_and_merge: the probe returns chapters; they are filtered, counted
\* and, when some match, queued for phase 2.
ScanMatched ==
  /\ Scanning
  /\ scan_log' = Append(scan_log, "chapters")
  /\ mode # "separate"
  /\ \E titles \in ProbeTitles(SumFound(results)) :
       LET chapters == MkChapters(titles)
           m == _filter_chapters(chapters)
       IN /\ results' = Append(results, ScannedResult(InputPath, chapters, m))
          /\ file_chapters' =
               IF m # <<>>
                 THEN Append(file_chapters,
                        [input_path |-> InputPath, matching |-> m, pos |-> idx + 1])
                 ELSE file_chapters
          /\ total_matches' = total_matches + Len(m)
  /\ idx' = idx + 1
  /\ UNCHANGED << mode, input_files, pc, raised, temp_dir, result, matching,
                  extractVars >>
  /\ UNCHANGED outerVars

\* Variant of ZeroMatches: without the guard the empty run returns its results.
ZeroMatches_return ==
  /\ pc = "scan" /\ mode # "separate"
  /\ idx = Len(input_files)
  /\ total_matches = 0
  /\ pc' = "returned"
  /\ UNCHANGED << mode, input_files, raised, idx, results, file_chapters,
                  total_matches, temp_dir, result, matching, scan_log,
                  extractVars >>
  /\ UNCHANGED outerVars

\* `if total_matches == 0: raise ChapterExtractionError`.
ZeroMatches ==
  /\ pc = "scan" /\ mode # "separate"
  /\ idx = Len(input_files)
  /\ total_matches = 0
  /\ Raise(CEE)
  /\ UNCHANGED scan_log
  /\ UNCHANGED << mode, input_files, idx, results, file_chapters,
                  total_matches, result, matching, extractVars >>
  /\ UNCHANGED outerVars

\* The task list of _extract_segments_parallel: one task per matched chapter,
\* numbered by global_idx in file_chapters order.
RECURSIVE BuildTasks(_, _)
BuildTasks(fcs, global_idx) ==
  IF fcs = <<>> THEN <<>>
  ELSE LET fc == Head(fcs)
           mine == [c \in 1..Len(fc.matching) |->
                     [ idx |-> global_idx + c - 1,
                       input_path |-> fc.input_path,
                       ch_idx |-> c - 1,
                       chapter |-> fc.matching[c],
                       segment_file |-> SegmentFile(fc.input_path, c - 1),
                       pos |-> fc.pos ]]
       IN mine \o BuildTasks(Tail(fcs), global_idx + Len(fc.matching))

\* Phase 2 starts: the temporary directory is created; in parallel mode the
\* tasks are built and all submitted to the pool.
\* Variant of BeginExtract that starts the extraction after the first file.
BeginExtract_early ==
  /\ pc = "scan" /\ mode # "separate"
  /\ idx >= 1
  /\ total_matches # 0
  /\ temp_dir' = "exists"
  /\ IF mode = "parallel"
       THEN /\ tasks' = BuildTasks(file_chapters, 0)
            /\ task_state' = [t \in 1..Len(tasks') |-> "pending"]
            /\ pc' = "collect"
       ELSE /\ pc' = "extract"
            /\ UNCHANGED << tasks, task_state >>
  /\ UNCHANGED << mode, input_files, raised, idx, results, file_chapters,
                  total_matches, fc_i, ch_i, all_segments, segment_results,
                  extraction_errors, result, matching, scan_log, cut_calls,
                  merge_calls, outputs_written >>
  /\ UNCHANGED outerVars

BeginExtract ==
  /\ pc = "scan" /\ mode # "separate"
  /\ idx = Len(input_files)
  /\ total_matches # 0
  /\ temp_dir' = "exists"
  /\ IF mode = "parallel"
       THEN /\ tasks' = BuildTasks(file_chapters, 0)
            /\ task_state' = [t \in 1..Len(tasks') |-> "pending"]
            /\ pc' = "collect"
       ELSE /\ pc' = "extract"
            /\ UNCHANGED << tasks, task_state >>
  /\ UNCHANGED << mode, input_files, raised, idx, results, file_chapters,
                  total_matches, fc_i, ch_i, all_segments, segment_results,
                  extraction_errors, result, matching, scan_log, cut_calls,
                  merge_calls, outputs_written >>
  /\ UNCHANGED outerVars

\* ------------------------------------------- _extract_segments_sequential
SeqExtracting ==
  pc = "extract" /\ mode = "sequential" /\ fc_i <= Len(file_chapters)

\* A segment of the merge list: the file written, and which task wrote it.
Segment(input_path, pos, ch_idx) ==
  [file |-> SegmentFile(input_path, ch_idx), pos |-> pos, ch |-> ch_idx]

\* After the inner loop's step at (fc_i, ch_i): the next loop position.
SeqAdvance(next_fc, next_ch) ==
  /\ fc_i' = next_fc
  /\ ch_i' = next_ch
  /\ pc' = IF next_fc > Len(file_chapters) THEN "merge" ELSE "extract"

\* _extract_segment succeeds: the segment and the chapter are appended.
SeqExtractOk ==
  /\ SeqExtracting
  /\ LET fc == file_chapters[fc_i]
         r == FindResult(results, fc.input_path)
         last == (ch_i + 1 = Len(fc.matching))
     IN /\ all_segments' = Append(all_segments, Segment(fc.input_path, fc.pos, ch_i))
        /\ results' = [results EXCEPT ![r].chapters_extracted =
                         Append(@, fc.matching[ch_i + 1])]
        /\ cut_calls' = cut_calls \cup {<<fc.pos, ch_i, "ok">>}
        /\ IF last THEN SeqAdvance(fc_i + 1, 0) ELSE SeqAdvance(fc_i, ch_i + 1)
  /\ UNCHANGED << mode, input_files, raised, idx, file_chapters, total_matches,
                  temp_dir, tasks, task_state, segment_results,
                  extraction_errors, result, matching, scan_log, merge_calls,
                  outputs_written >>
  /\ UNCHANGED outerVars

\* Variant of SeqExtractFail: the handler sits outside the file loop, so a
\* failure ends the extraction of every remaining file.
SeqExtractFail_abort ==
  /\ SeqExtracting
  /\ LET fc == file_chapters[fc_i]
         r == FindResult(results, fc.input_path)
     IN /\ results' = [results EXCEPT ![r].success = FALSE,
                                      ![r].error_message = "extract failed"]
        /\ cut_calls' = cut_calls \cup {<<fc.pos, ch_i, "failed">>}
        /\ SeqAdvance(Len(file_chapters) + 1, 0)
  /\ UNCHANGED << mode, input_files, raised, idx, file_chapters, total_matches,
                  temp_dir, all_segments, tasks, task_state, segment_results,
                  extraction_errors, result, matching, scan_log, merge_calls,
                  outputs_written >>
  /\ UNCHANGED outerVars

\* Variant of SeqExtractFail: a failure also discards the segments the file
\* has already produced.
SeqExtractFail_rollback ==
  /\ SeqExtracting
  /\ LET fc == file_chapters[fc_i]
         r == FindResult(results, fc.input_path)
     IN /\ results' = [results EXCEPT ![r].success = FALSE,
                                      ![r].error_message = "extract failed"]
        /\ cut_calls' = cut_calls \cup {<<fc.pos, ch_i, "failed">>}
        /\ all_segments' = SelectSeq(all_segments, LAMBDA sg : sg.pos # fc.pos)
        /\ SeqAdvance(fc_i + 1, 0)
  /\ UNCHANGED << mode, input_files, raised, idx, file_chapters, total_matches,
                  temp_dir, tasks, task_state, segment_results,
                  extraction_errors, result, matching, scan_log, merge_calls,
                  outputs_written >>
  /\ UNCHANGED outerVars

\* _extract_segment raises: `except Exception` marks the file failed and the
\* outer loop goes to the next file.
SeqExtractFail ==
  /\ SeqExtracting
  /\ LET fc == file_chapters[fc_i]
         r == FindResult(results, fc.input_path)
     IN /\ results' = [results EXCEPT ![r].success = FALSE,
                                      ![r].error_message = "extract failed"]
        /\ cut_calls' = cut_calls \cup {<<fc.pos, ch_i, "failed">>}
        /\ SeqAdvance(fc_i + 1, 0)
  /\ UNCHANGED << mode, input_files, raised, idx, file_chapters, total_matches,
                  temp_dir, all_segments, tasks, task_state, segment_results,
                  extraction_errors, result, matching, scan_log, merge_calls,
                  outputs_written >>
  /\ UNCHANGED outerVars

\* The list _extract_segments_sequential returns, as a function of the scanned
\* input and of the set `failed` of <<input position, ch_idx>> whose
\* _extract_segment raises: per file, the segments before its first failure.
SeqFileSegments(fc, failed) ==
  LET n == Len(fc.matching)
      bad == {c \in 0..(n - 1) : <<fc.pos, c>> \in failed}
      stop == IF bad = {} THEN n ELSE CHOOSE c \in bad : \A d \in bad : c <= d
  IN [c \in 1..stop |-> Segment(fc.input_path, fc.pos, c - 1)]

RECURSIVE SequentialSegments(_, _)
SequentialSegments(fcs, failed) ==
  IF fcs = <<>> THEN <<>>
  ELSE SeqFileSegments(Head(fcs), failed) \o SequentialSegments(Tail(fcs), failed)

\* --------------------------------------------- _extract_segments_parallel
\* d[k] = v on a dict.
DictPut(d, k, v) ==
  [x \in (DOMAIN d) \cup {k} |-> IF x = k THEN v ELSE d[x]]

\* extract_task in a pool worker: one _extract_segment call whose outcome is
\* kept in the future; the worker touches nothing else.
\* Variant of WorkerRun whose worker records a successful cut on the file's
\* result itself.
WorkerRun_writes(t) ==
  /\ pc = "collect"
  /\ task_state[t] = "pending"
  /\ \E outcome \in {"ok", "failed"} :
       /\ task_state' = [task_state EXCEPT ![t] = outcome]
       /\ cut_calls' = cut_calls \cup {<<tasks[t].pos, tasks[t].ch_idx, outcome>>}
       /\ results' =
            IF outcome = "ok"
              THEN [results EXCEPT
                      ![FindResult(results, tasks[t].input_path)].chapters_extracted =
                         Append(@, tasks[t].chapter)]
              ELSE results
  /\ UNCHANGED << mode, input_files, pc, raised, idx, file_chapters,
                  total_matches, temp_dir, fc_i, ch_i, all_segments, tasks,
                  segment_results, extraction_errors, result, matching,
                  scan_log, merge_calls, outputs_written >>
  /\ UNCHANGED outerVars

WorkerRun(t) ==
  /\ pc = "collect"
  /\ task_state[t] = "pending"
  /\ \E outcome \in {"ok", "failed"} :
       /\ task_state' = [task_state EXCEPT ![t] = outcome]
       /\ cut_calls' = cut_calls \cup {<<tasks[t].pos, tasks[t].ch_idx, outcome>>}
  /\ UNCHANGED << mode, input_files, pc, raised, idx, results, file_chapters,
                  total_matches, temp_dir, fc_i, ch_i, all_segments, tasks,
                  segment_results, extraction_errors, result, matching,
                  scan_log, merge_calls, outputs_written >>
  /\ UNCHANGED outerVars

\* One iteration of `for future in as_completed(futures)` on the control
\* thread, for a future that is done: in whatever order they complete.
Collect(t) ==
  /\ pc = "collect"
  /\ task_state[t] \in {"ok", "failed"}
  /\ task_state' = [task_state EXCEPT ![t] = "collected"]
  /\ IF task_state[t] = "failed"
       THEN /\ extraction_errors' =
                 DictPut(extraction_errors, tasks[t].input_path, "extract failed")
            /\ UNCHANGED << segment_results, results >>
       ELSE /\ segment_results' =
                 DictPut(segment_results, tasks[t].idx,
                         Segment(tasks[t].input_path, tasks[t].pos, tasks[t].ch_idx))
            /\ results' =
                 [results EXCEPT
                    ![FindResult(results, tasks[t].input_path)].chapters_extracted =
                       Append(@, tasks[t].chapter)]
            /\ UNCHANGED extraction_errors
  /\ UNCHANGED << mode, input_files, pc, raised, idx, file_chapters,
                  total_matches, temp_dir, fc_i, ch_i, all_segments, tasks,
                  result, matching, scan_log, cut_calls, merge_calls,
                  outputs_written >>
  /\ UNCHANGED outerVars

\* Variant of MarkFailed: the result is failed without its message.
MarkFailed_nomsg(rs, errors) ==
  [i \in 1..Len(rs) |->
     IF /\ rs[i].source_file \in DOMAIN errors
        /\ FindResult(rs, rs[i].source_file) = i
       THEN [rs[i] EXCEPT !.success = FALSE]
       ELSE rs[i]]

\* "Mark failed files": every path of extraction_errors fails its result.
MarkFailed(rs, errors) ==
  [i \in 1..Len(rs) |->
     IF /\ rs[i].source_file \in DOMAIN errors
        /\ FindResult(rs, rs[i].source_file) = i
       THEN [rs[i] EXCEPT !.success = FALSE,
                          !.error_message = errors[rs[i].source_file]]
       ELSE rs[i]]

\* Variant of SortedValues: the keys are taken in descending order.
RECURSIVE SortedValues_desc(_, _)
SortedValues_desc(d, keys) ==
  IF keys = {} THEN <<>>
  ELSE LET k == CHOOSE x \in keys : \A y \in keys : x >= y
       IN <<d[k]>> \o SortedValues_desc(d, keys \ {k})

\* [segment_results[i] for i in sorted(segment_results.keys())]
RECURSIVE SortedValues(_, _)
SortedValues(d, keys) ==
  IF keys = {} THEN <<>>
  ELSE LET k == CHOOSE x \in keys : \A y \in keys : x <= y
       IN <<d[k]>> \o SortedValues(d, keys \ {k})

\* Variant of ParFinish: the collection loop is left at the first collected
\* future and the pool is not waited for.
ParFinish_early ==
  /\ pc = "collect"
  /\ \E t \in 1..Len(tasks) : task_state[t] = "collected"
  /\ results' = MarkFailed(results, extraction_errors)
  /\ all_segments' = SortedValues(segment_results, DOMAIN segment_results)
  /\ pc' = "merge"
  /\ UNCHANGED << mode, input_files, raised, idx, file_chapters, total_matches,
                  temp_dir, fc_i, ch_i, tasks, task_state, segment_results,
                  extraction_errors, result, matching, scan_log, cut_calls,
                  merge_calls, outputs_written >>
  /\ UNCHANGED outerVars

\* as_completed is exhausted and the pool is shut down: failed files are
\* marked and the segments are returned in global_idx order.
ParFinish ==
  /\ pc = "collect"
  /\ \A t \in 1..Len(tasks) : task_state[t] = "collected"
  /\ results' = MarkFailed(results, extraction_errors)
  /\ all_segments' = SortedValues(segment_results, DOMAIN segment_results)
  /\ pc' = "merge"
  /\ UNCHANGED << mode, input_files, raised, idx, file_chapters, total_matches,
                  temp_dir, fc_i, ch_i, tasks, task_state, segment_results,
                  extraction_errors, result, matching, scan_log, cut_calls,
                  merge_calls, outputs_written >>
  /\ UNCHANGED outerVars

\* ------------------------------------------------ extract_and_merge, merge
\* Variant of AssignOutput: the output goes to every result with an extracted
\* chapter, failed or not.
AssignOutput_any(rs, output_path) ==
  [i \in 1..Len(rs) |->
     IF rs[i].chapters_extracted # <<>>
       THEN [rs[i] EXCEPT !.output_file = output_path]
       ELSE rs[i]]

\* `if result.success and result.chapters_extracted: result.output_file = ...`
AssignOutput(rs, output_path) ==
  [i \in 1..Len(rs) |->
     IF rs[i].success /\ rs[i].chapters_extracted # <<>>
       THEN [rs[i] EXCEPT !.output_file = output_path]
       ELSE rs[i]]

\* `if all_segments:` is false: nothing is merged, the results are returned.
NoMerge ==
  /\ pc = "merge"
  /\ all_segments = <<>>
  /\ pc' = "returned"
  /\ temp_dir' = TempAfterExit
  /\ UNCHANGED << mode, input_files, raised, idx, results, file_chapters,
                  total_matches, result, matching, scan_log, extractVars >>
  /\ UNCHANGED outerVars

\* _merge_segments succeeds: the output is written and assigned.
MergeOk ==
  /\ pc = "merge"
  /\ all_segments # <<>>
  /\ merge_calls' = Append(merge_calls,
       [segments |-> all_segments, output |-> OutputPath, outcome |-> "ok"])
  /\ outputs_written' = outputs_written \cup {OutputPath}
  /\ results' = AssignOutput(results, OutputPath)
  /\ pc' = "returned"
  /\ temp_dir' = TempAfterExit
  /\ UNCHANGED << mode, input_files, raised, idx, file_chapters, total_matches,
                  fc_i, ch_i, all_segments, tasks, task_state, segment_results,
                  extraction_errors, result, matching, scan_log, cut_calls >>
  /\ UNCHANGED outerVars

\* mkdir, writing the manifest or the concat process fails: the exception
\* leaves extract_and_merge.
MergeFail ==
  /\ pc = "merge"
  /\ all_segments # <<>>
  /\ merge_calls' = Append(merge_calls,
       [segments |-> all_segments, output |-> OutputPath, outcome |-> "failed"])
  /\ \E exc \in {CEE, OtherExc} : Raise(exc)
  /\ UNCHANGED << mode, input_files, idx, results, file_chapters,
                  total_matches, fc_i, ch_i, all_segments, tasks, task_state,
                  segment_results, extraction_errors, result, matching,
                  scan_log, cut_calls, outputs_written >>
  /\ UNCHANGED outerVars

\* ------------------------------------------------ extract_to_separate_files
\* The output_dir and output_suffix arguments ("None": beside the source).
OutputDir == "None"
OutputSuffix == "_filtered"

\* out_file: f"{input_path.stem}{output_suffix}.mkv" in output_dir or in the
\* source's directory.
OutFile(input_path) ==
  [ dir |-> IF OutputDir # "None" THEN OutputDir ELSE input_path.dir,
    stem |-> input_path.stem \o OutputSuffix,
    ext |-> ".mkv" ]

\* `with tempfile.TemporaryDirectory(...)` is entered before the loop.
SepEnter ==
  /\ pc = "enter"
  /\ pc' = "scan"
  /\ temp_dir' = "exists"
  /\ UNCHANGED << mode, input_files, raised, idx, results, file_chapters,
                  total_matches, result, matching, scan_log, extractVars >>
  /\ UNCHANGED outerVars

\* The current file's result is appended and the loop goes to the next file.
SepNextFile(r) ==
  /\ results' = Append(results, r)
  /\ idx' = idx + 1
  /\ pc' = "scan"

\* Variant of SepScanMatched: a file without a match ends the call with
\* ChapterExtractionError, as a global zero-match guard would.
SepScanMatched_guard ==
  /\ Scanning
  /\ mode = "separate"
  /\ scan_log' = Append(scan_log, "chapters")
  /\ \E titles \in ProbeTitles(SumFound(results)) :
       LET chapters == MkChapters(titles)
           m == _filter_chapters(chapters)
       IN /\ IF m = <<>>
               THEN /\ Raise(CEE)
                    /\ UNCHANGED << result, matching, all_segments, ch_i,
                                    results, idx >>
               ELSE /\ result' = ScannedResult(InputPath, chapters, m)
                    /\ matching' = m
                    /\ all_segments' = <<>>
                    /\ ch_i' = 0
                    /\ pc' = "sep_extract"
                    /\ UNCHANGED << results, idx, raised, temp_dir >>
  /\ UNCHANGED << mode, input_files, file_chapters, total_matches,
                  fc_i, tasks, task_state, segment_results,
                  extraction_errors, cut_calls, merge_calls, outputs_written >>
  /\ UNCHANGED outerVars

\* The probe returns chapters: with no match the result is recorded at once,
\* else the file's own extraction starts.
SepScanMatched ==
  /\ Scanning
  /\ mode = "separate"
  /\ scan_log' = Append(scan_log, "chapters")
  /\ \E titles \in ProbeTitles(SumFound(results)) :
       LET chapters == MkChapters(titles)
           m == _filter_chapters(chapters)
       IN /\ IF m = <<>>
               THEN /\ SepNextFile(ScannedResult(InputPath, chapters, m))
                    /\ UNCHANGED << result, matching, all_segments, ch_i >>
               ELSE /\ result' = ScannedResult(InputPath, chapters, m)
                    /\ matching' = m
                    /\ all_segments' = <<>>
                    /\ ch_i' = 0
                    /\ pc' = "sep_extract"
                    /\ UNCHANGED << results, idx >>
  /\ UNCHANGED << mode, input_files, raised, file_chapters, total_matches,
                  temp_dir, fc_i, tasks, task_state, segment_results,
                  extraction_errors, cut_calls, merge_calls, outputs_written >>
  /\ UNCHANGED outerVars

\* _extract_segment succeeds for chapter ch_i of the current file.
SepExtractOk ==
  /\ pc = "sep_extract"
  /\ all_segments' = Append(all_segments, Segment(InputPath, idx + 1, ch_i))
  /\ result' = [result EXCEPT !.chapters_extracted = Append(@, matching[ch_i + 1])]
  /\ cut_calls' = cut_calls \cup {<<idx + 1, ch_i, "ok">>}
  /\ ch_i' = ch_i + 1
  /\ pc' = IF ch_i + 1 = Len(matching) THEN "sep_merge" ELSE "sep_extract"
  /\ UNCHANGED << mode, input_files, raised, idx, results, file_chapters,
                  total_matches, temp_dir, fc_i, tasks, task_state,
                  segment_results, extraction_errors, matching, scan_log,
                  merge_calls, outputs_written >>
  /\ UNCHANGED outerVars

\* The cut process exits non-zero: _extract_segment raises
\* ChapterExtractionError, which `except ChapterExtractionError: raise`
\* re-raises out of the call.
SepExtractFail ==
  /\ pc = "sep_extract"
  /\ cut_calls' = cut_calls \cup {<<idx + 1, ch_i, "failed">>}
  /\ Raise(CEE)
  /\ UNCHANGED << mode, input_files, idx, results, file_chapters,
                  total_matches, fc_i, ch_i, all_segments, tasks, task_state,
                  segment_results, extraction_errors, result, matching,
                  scan_log, merge_calls, outputs_written >>
  /\ UNCHANGED outerVars

\* _extract_segment raises something else (the process cannot be started):
\* `except Exception` records it on the file's result, the loop goes on.
SepExtractOther ==
  /\ pc = "sep_extract"
  /\ cut_calls' = cut_calls \cup {<<idx + 1, ch_i, "failed">>}
  /\ SepNextFile([result EXCEPT !.success = FALSE,
                                !.error_message = "extract exception"])
  /\ UNCHANGED << mode, input_files, raised, file_chapters, total_matches,
                  temp_dir, fc_i, ch_i, all_segments, tasks, task_state,
                  segment_results, extraction_errors, result, matching,
                  scan_log, merge_calls, outputs_written >>
  /\ UNCHANGED outerVars

\* The file's segments are merged into its own output.
SepMergeOk ==
  /\ pc = "sep_merge"
  /\ merge_calls' = Append(merge_calls,
       [segments |-> all_segments, output |-> OutFile(InputPath), outcome |-> "ok"])
  /\ outputs_written' = outputs_written \cup {OutFile(InputPath)}
  /\ SepNextFile([result EXCEPT !.output_file = OutFile(InputPath)])
  /\ UNCHANGED << mode, input_files, raised, file_chapters, total_matches,
                  temp_dir, fc_i, ch_i, all_segments, tasks, task_state,
                  segment_results, extraction_errors, result, matching,
                  scan_log, cut_calls >>
  /\ UNCHANGED outerVars

\* The concat process exits non-zero: ChapterExtractionError leaves the call.
SepMergeFail ==
  /\ pc = "sep_merge"
  /\ merge_calls' = Append(merge_calls,
       [segments |-> all_segments, output |-> OutFile(InputPath), outcome |-> "failed"])
  /\ Raise(CEE)
  /\ UNCHANGED << mode, input_files, idx, results, file_chapters,
                  total_matches, fc_i, ch_i, all_segments, tasks, task_state,
                  segment_results, extraction_errors, result, matching,
                  scan_log, cut_calls, outputs_written >>
  /\ UNCHANGED outerVars

\* Writing the manifest raises OSError: recorded on the file's result.
SepMergeOther ==
  /\ pc = "sep_merge"
  /\ merge_calls' = Append(merge_calls,
       [segments |-> all_segments, output |-> OutFile(InputPath), outcome |-> "failed"])
  /\ SepNextFile([result EXCEPT !.success = FALSE,
                                !.error_message = "merge exception"])
  /\ UNCHANGED << mode, input_files, raised, file_chapters, total_matches,
                  temp_dir, fc_i, ch_i, all_segments, tasks, task_state,
                  segment_results, extraction_errors, result, matching,
                  scan_log, cut_calls, outputs_written >>
  /\ UNCHANGED outerVars

\* The loop is over: the with-block is left and the results are returned.
SepReturn ==
  /\ pc = "scan" /\ mode = "separate"
  /\ idx = Len(input_files)
  /\ pc' = "returned"
  /\ temp_dir' = TempAfterExit
  /\ UNCHANGED << mode, input_files, raised, idx, results, file_chapters,
                  total_matches, result, matching, scan_log, extractVars >>
  /\ UNCHANGED outerVars

Next ==
  \/ ScanNotFound
  \/ ScanProbeError
  \/ ScanProbeOther
  \/ ScanNoChapters
  \/ ScanMatched
  \/ ZeroMatches
  \/ BeginExtract
  \/ SeqExtractOk
  \/ SeqExtractFail
  \/ \E t \in 1..Len(tasks) : WorkerRun(t)
  \/ \E t \in 1..Len(tasks) : Collect(t)
  \/ ParFinish
  \/ NoMerge
  \/ MergeOk
  \/ MergeFail
  \/ SepEnter
  \/ SepScanMatched
  \/ SepExtractOk
  \/ SepExtractFail
  \/ SepExtractOther
  \/ SepMergeOk
  \/ SepMergeFail
  \/ SepMergeOther
  \/ SepReturn

Spec == Init /\ [][Next]_vars

\* ------------------------------------------------------ cli.main, extraction
\* The exception Python raises when a call passes a keyword argument the
\* function does not take.
TypeError == "TypeError"

\* The input lists main hands to the extractor: not empty (else it has
\* returned 1 before) and without duplicates (removed, order kept).
CliInputLists ==
  {fs \in InputLists :
     /\ fs # <<>>
     /\ \A i, j \in 1..Len(fs) : fs[i] = fs[j] => i = j}

\* main stands at `# Execute extraction`; -s selects mode "separate", -o the
\* merge, sequential or with --parallel.
InitCli ==
  /\ mode \in {"sequential", "parallel", "separate"}
  /\ input_files \in CliInputLists
  /\ pc = "main"
  /\ raised = "none"
  /\ idx = 0
  /\ results = <<>>
  /\ file_chapters = <<>>
  /\ total_matches = 0
  /\ temp_dir = "none"
  /\ fc_i = 1
  /\ ch_i = 0
  /\ all_segments = <<>>
  /\ tasks = <<>>
  /\ task_state = <<>>
  /\ segment_results = <<>>
  /\ extraction_errors = <<>>
  /\ result = NewResult(NoPath)
  /\ matching = <<>>
  /\ scan_log = <<>>
  /\ cut_calls = {}
  /\ merge_calls = <<>>
  /\ outputs_written = {}
  /\ exit_code = <<>>
  /\ call = NoCall
  /\ ret = NoRet

pipelineVars ==
  << mode, input_files, raised, idx, results, file_chapters, total_matches,
     temp_dir, result, matching, scan_log, extractVars >>

\* `if args.separate: results = extractor.extract_to_separate_files(...)`
\* with keyword arguments the method takes: the call is entered.
CliCallSeparate ==
  /\ pc = "main"
  /\ mode = "separate"
  /\ pc' = "enter"
  /\ UNCHANGED pipelineVars
  /\ UNCHANGED outerVars

\* `else: results = extractor.extract_and_merge(..., auto_chapters=...,
\* chapter_format=...)`: extract_and_merge has no such parameters, so binding
\* the arguments raises TypeError before the method body runs.
CliCallMerge ==
  /\ pc = "main"
  /\ mode # "separate"
  /\ Raise(TypeError)
  /\ UNCHANGED << mode, input_files, idx, results, file_chapters,
                  total_matches, result, matching, scan_log, extractVars >>
  /\ UNCHANGED outerVars

\* Variant of CliReturn: a returned list always gives exit code 0.
CliReturn_zero ==
  /\ pc = "returned"
  /\ exit_code' = <<0>>
  /\ pc' = "exited"
  /\ UNCHANGED pipelineVars
  /\ UNCHANGED << call, ret >>

\* `return 0 if all(r.success for r in results) else 1`
CliReturn ==
  /\ pc = "returned"
  /\ exit_code' =
       << IF \A r \in 1..Len(results) : results[r].success THEN 0 ELSE 1 >>
  /\ pc' = "exited"
  /\ UNCHANGED pipelineVars
  /\ UNCHANGED << call, ret >>

\* `except ChapterExtractionError: return 1` and `except Exception: return 1`
CliExcept ==
  /\ pc = "raised"
  /\ exit_code' = <<1>>
  /\ pc' = "exited"
  /\ UNCHANGED pipelineVars
  /\ UNCHANGED << call, ret >>

NextCli ==
  \/ CliCallSeparate
  \/ CliCallMerge
  \/ SepEnter
  \/ ScanNotFound
  \/ ScanProbeError
  \/ ScanProbeOther
  \/ ScanNoChapters
  \/ SepScanMatched
  \/ SepExtractOk
  \/ SepExtractFail
  \/ SepExtractOther
  \/ SepMergeOk
  \/ SepMergeFail
  \/ SepMergeOther
  \/ SepReturn
  \/ CliReturn
  \/ CliExcept

SpecCli == InitCli /\ [][NextCli]_vars

\* ------------------------------------------------- single method calls
\* The pipeline is not running while a single method call is studied.
PipelineIdle ==
  /\ mode = "none"
  /\ input_files = <<>>
  /\ raised = "none"
  /\ idx = 0
  /\ results = <<>>
  /\ file_chapters = <<>>
  /\ total_matches = 0
  /\ temp_dir = "none"
  /\ fc_i = 1
  /\ ch_i = 0
  /\ all_segments = <<>>
  /\ tasks = <<>>
  /\ task_state = <<>>
  /\ segment_results = <<>>
  /\ extraction_errors = <<>>
  /\ result = NewResult(NoPath)
  /\ matching = <<>>
  /\ scan_log = <<>>
  /\ cut_calls = {}
  /\ merge_calls = <<>>
  /\ outputs_written = {}
  /\ exit_code = <<>>

\* ---------------------- filter_chapters_by_keyword, filter_chapters_by_regex
\* Longest chapter list handed to a filter.
MaxFilterLen == 3

\* Chapters as the filters see them: the title and one more field that tells
\* chapters of one title apart, so a list may hold equal chapters and unequal
\* chapters of the same title.
FilterChapters == [title : Titles, index : {0, 1}]

FilterLists == UNION { [1..n -> FilterChapters] : n \in 0..MaxFilterLen }

\* Keywords, and the literals of the patterns: the empty string, a lower-case
\* and an upper-case fragment of a title, and a letter of the other title.
Needles == { <<>>, <<"e", "p">>, <<"E">>, <<"r">> }

\* The valid patterns explored: a literal, optionally anchored by ^ and by $.
Patterns == [lit : Needles, bol : BOOLEAN, eol : BOOLEAN]

\* compiled.search(title) is not None, for re.compile(pattern, flags) with
\* flags = re.IGNORECASE or 0.
RegexSearch(pattern, title, ignorecase) ==
  LET lit == IF ignorecase THEN LowerStr(pattern.lit) ELSE pattern.lit
      t == IF ignorecase THEN LowerStr(title) ELSE title
      n == Len(lit)
  IN \E i \in 0..(Len(t) - n) :
       /\ SubSeq(t, i + 1, i + n) = lit
       /\ pattern.bol => i = 0
       /\ pattern.eol => i + n = Len(t)

\* [ch for ch in chapters if Test(ch)], Test given as the set of the list's
\* positions that pass; evaluated element by element.
RECURSIVE FilterAt(_, _, _)
FilterAt(s, pass, i) ==
  IF i > Len(s) THEN <<>>
  ELSE (IF i \in pass THEN <<s[i]>> ELSE <<>>) \o FilterAt(s, pass, i + 1)

\* Variant of filter_chapters_by_regex: the exclude branch matches without
\* the flags.
filter_chapters_by_regex_noflags(chapters, pattern, case_sensitive, exclude) ==
  LET ignorecase == ~case_sensitive
  IN IF exclude
       THEN FilterAt(chapters,
              {i \in 1..Len(chapters) :
                 ~RegexSearch(pattern, chapters[i].title, FALSE)}, 1)
       ELSE FilterAt(chapters,
              {i \in 1..Len(chapters) :
                 RegexSearch(pattern, chapters[i].title, ignorecase)}, 1)

filter_chapters_by_regex(chapters, pattern, case_sensitive, exclude) ==
  LET ignorecase == ~case_sensitive
  IN IF exclude
       THEN FilterAt(chapters,
              {i \in 1..Len(chapters) :
                 ~RegexSearch(pattern, chapters[i].title, ignorecase)}, 1)
       ELSE FilterAt(chapters,
              {i \in 1..Len(chapters) :
                 RegexSearch(pattern, chapters[i].title, ignorecase)}, 1)

\* A filter is called on the same arguments with exclude=False and with
\* exclude=True.
FilterCalls ==
  [fn : {"filter_chapters_by_keyword"}, chapters : FilterLists,
   needle : Needles, case_sensitive : BOOLEAN]
  \cup
  [fn : {"filter_chapters_by_regex"}, chapters : FilterLists,
   needle : Patterns, case_sensitive : BOOLEAN]

InitFilter ==
  /\ PipelineIdle
  /\ pc = "call"
  /\ call \in FilterCalls
  /\ ret = NoRet

ApplyKeywordFilter ==
  /\ pc = "call"
  /\ call.fn = "filter_chapters_by_keyword"
  /\ ret' = [ raised |-> "none",
              include |-> filter_chapters_by_keyword(
                            call.chapters, call.needle, call.case_sensitive, FALSE),
              exclude |-> filter_chapters_by_keyword(
                            call.chapters, call.needle, call.case_sensitive, TRUE) ]
  /\ pc' = "done"
  /\ UNCHANGED << pipelineVars, exit_code, call >>

ApplyRegexFilter ==
  /\ pc = "call"
  /\ call.fn = "filter_chapters_by_regex"
  /\ ret' = [ raised |-> "none",
              include |-> filter_chapters_by_regex(
                            call.chapters, call.needle, call.case_sensitive, FALSE),
              exclude |-> filter_chapters_by_regex(
                            call.chapters, call.needle, call.case_sensitive, TRUE) ]
  /\ pc' = "done"
  /\ UNCHANGED << pipelineVars, exit_code, call >>

NextFilter ==
  \/ ApplyKeywordFilter
  \/ ApplyRegexFilter

SpecFilter == InitFilter /\ [][NextFilter]_vars

\* ------------------------------ set_default_track, set_default_tracks_by_language
\* Most tracks in the file.
MaxTracks == 3

UnsupportedFormatError == "UnsupportedFormatError"
ValueError == "ValueError"

\* Python's None for an optional track id and an optional str argument.
NoTrack == -1
NoStr == "None"

TrackTypes == {"audio", "subtitles"}
Languages == {"jpn", "eng"}

\* What get_tracks reads of each stream, in stream order.
TrackLists ==
  UNION { [1..n -> [type : TrackTypes, language : Languages, default : BOOLEAN]] :
            n \in 0..MaxTracks }

\* get_tracks: one Track per stream, id = the stream's index.
get_tracks(streams) ==
  [i \in 1..Len(streams) |->
     [ id |-> i - 1, type |-> streams[i].type,
       language |-> streams[i].language, default |-> streams[i].default ]]

\* The input file: missing, present with another suffix, or an MKV file; and
\* whether `mkvpropedit --version` runs.
TrackFiles ==
  [exists : {FALSE}, suffix : {".mkv"}, editor : {TRUE}] \cup
  [exists : {TRUE}, suffix : {".mp4"}, editor : {TRUE}] \cup
  [exists : {TRUE}, suffix : {".mkv"}, editor : BOOLEAN]

\* next((t for t in tracks if Test(t)), None) as a position, 0 for None.
FirstTrack(tracks, pass) ==
  IF pass = {} THEN 0 ELSE CHOOSE i \in pass : \A j \in pass : i <= j

\* Variant of EditCommand: the target is set before the flags are cleared.
EditCommand_setfirst(tracks, target_track_id, target_type) ==
  LET same == {i \in 1..Len(tracks) : tracks[i].type = target_type}
  IN <<[track |-> target_track_id, flag_default |-> 1]>> \o
     FilterAt([i \in 1..Len(tracks) |-> [track |-> tracks[i].id, flag_default |-> 0]],
              same, 1)

\* The edits of the mkvpropedit command: `--edit track:=id --set
\* flag-default=0` for each track of the target's type in stream order, then
\* `--edit track:=target --set flag-default=1`.
EditCommand(tracks, target_track_id, target_type) ==
  LET same == {i \in 1..Len(tracks) : tracks[i].type = target_type}
  IN FilterAt([i \in 1..Len(tracks) |-> [track |-> tracks[i].id, flag_default |-> 0]],
              same, 1)
     \o <<[track |-> target_track_id, flag_default |-> 1]>>

\* mkvpropedit applies the edits of one command in order; `track:=id` selects
\* the track of that id.
RECURSIVE ApplyEdits(_, _)
ApplyEdits(streams, edits) ==
  IF edits = <<>> THEN streams
  ELSE LET e == Head(edits)
       IN ApplyEdits(
            [i \in 1..Len(streams) |->
               IF i - 1 = e.track
                 THEN [streams[i] EXCEPT !.default = (e.flag_default = 1)]
                 ELSE streams[i]],
            Tail(edits))

\* What one set_default_track call does: the exception that leaves it (and at
\* which check), the commands it ran, the target it chose and the streams of
\* the file afterwards. tools = <<probe_ok, editor_ok>>: whether ffprobe and
\* the mkvpropedit command exit with 0.
TrackOutcome(exc, why, target, type, cmds, streams) ==
  [ raised |-> exc, why |-> why, target |-> target, target_type |-> type,
    cmds |-> cmds, streams |-> streams ]

set_default_track(file, streams, track_id, track_type, language, tools) ==
  LET tracks == get_tracks(streams)
      probe_ok == tools[1]
      editor_ok == tools[2]
      Fail(exc, why) == TrackOutcome(exc, why, NoTrack, NoStr, <<>>, streams)
      Run(target, type) ==
        LET cmd == EditCommand(tracks, target, type)
        IN IF editor_ok
             THEN TrackOutcome("none", "none", target, type, <<cmd>>,
                               ApplyEdits(streams, cmd))
             ELSE TrackOutcome(CEE, "editor_failed", target, type, <<cmd>>, streams)
  IN IF ~file.exists THEN Fail(CEE, "missing")
     ELSE IF file.suffix # ".mkv" THEN Fail(UnsupportedFormatError, "format")
     ELSE IF ~file.editor THEN Fail(CEE, "editor_unavailable")
     ELSE IF track_id # NoTrack
       THEN IF ~probe_ok THEN Fail(CEE, "probe")
            ELSE LET t == FirstTrack(tracks,
                            {i \in 1..Len(tracks) : tracks[i].id = track_id})
                 IN IF t = 0 THEN Fail(CEE, "not_found")
                    ELSE Run(track_id, tracks[t].type)
     ELSE IF track_type # NoStr /\ language # NoStr
       THEN IF ~probe_ok THEN Fail(CEE, "probe")
            ELSE LET t == FirstTrack(tracks,
                            {i \in 1..Len(tracks) :
                               /\ tracks[i].type = track_type
                               /\ tracks[i].language = language})
                 IN IF t = 0 THEN Fail(CEE, "not_found")
                    ELSE Run(tracks[t].id, track_type)
     ELSE Fail(ValueError, "arguments")

\* The calls explored: set_default_track by id (one id beyond the streams), by
\* type and language, or with neither; set_default_tracks_by_language with
\* each language given or None.
TrackCalls ==
  [fn : {"set_default_track"}, file : TrackFiles, streams : TrackLists,
   track_id : 0..MaxTracks, track_type : {NoStr}, language : {NoStr}]
  \cup
  [fn : {"set_default_track"}, file : TrackFiles, streams : TrackLists,
   track_id : {NoTrack}, track_type : TrackTypes, language : Languages]
  \cup
  [fn : {"set_default_track"}, file : TrackFiles, streams : TrackLists,
   track_id : {NoTrack}, track_type : {NoStr}, language : {NoStr}]
  \cup
  [fn : {"set_default_tracks_by_language"}, file : TrackFiles,
   streams : TrackLists,
   audio_language : Languages \cup {NoStr},
   subtitle_language : Languages \cup {NoStr}]

\* result = {"audio": None, "subtitle": None}; nothing has run yet.
InitTracks ==
  /\ PipelineIdle
  /\ pc = "call"
  /\ call \in TrackCalls
  /\ ret = [ raised |-> "none", why |-> "none",
             value |-> [audio |-> NoTrack, subtitle |-> NoTrack],
             applied |-> [audio |-> NoTrack, subtitle |-> NoTrack],
             swallowed |-> <<>>, target |-> NoTrack, target_type |-> NoStr,
             cmds |-> <<>>, streams |-> call.streams ]

ApplySetDefaultTrack ==
  /\ pc = "call"
  /\ call.fn = "set_default_track"
  /\ \E probe_ok, editor_ok \in BOOLEAN :
       LET o == set_default_track(call.file, ret.streams, call.track_id,
                                  call.track_type, call.language,
                                  <<probe_ok, editor_ok>>)
       IN ret' = [ret EXCEPT !.raised = o.raised, !.why = o.why,
                             !.target = o.target, !.target_type = o.target_type,
                             !.cmds = o.cmds, !.streams = o.streams]
  /\ pc' = "done"
  /\ UNCHANGED << pipelineVars, exit_code, call >>

\* One `if <language>:` block of set_default_tracks_by_language for the track
\* type `type`, storing under result[key]; returns the new ret, where
\* applied[key] logs the track a successful set_default_track made default.
\* `except ChapterExtractionError: pass` catches whatever set_default_track
\* or get_tracks raised of that class; any other exception leaves the call.
ByLanguageBlock(key, type, language, o, probe_ok) ==
  LET after == [ret EXCEPT !.cmds = @ \o o.cmds, !.streams = o.streams,
                           !.applied[key] =
                              IF o.raised = "none" THEN o.target ELSE @]
      tracks == get_tracks(o.streams)
      t == FirstTrack(tracks,
             {i \in 1..Len(tracks) :
                tracks[i].type = type /\ tracks[i].language = language})
  IN IF o.raised = CEE
       THEN [after EXCEPT !.swallowed = Append(@, o.why)]
     ELSE IF o.raised # "none"
       THEN [after EXCEPT !.raised = o.raised, !.why = o.why]
     ELSE IF ~probe_ok
       THEN [after EXCEPT !.swallowed = Append(@, "probe")]
     ELSE IF t = 0 THEN after
     ELSE [after EXCEPT !.value[key] = tracks[t].id]

\* `if audio_language:` with its try block.
ByLanguageAudio ==
  /\ pc = "call"
  /\ call.fn = "set_default_tracks_by_language"
  /\ IF call.audio_language = NoStr
       THEN ret' = ret
       ELSE \E probe_ok, editor_ok, probe2_ok \in BOOLEAN :
              ret' = ByLanguageBlock("audio", "audio", call.audio_language,
                       set_default_track(call.file, ret.streams, NoTrack, "audio",
                                         call.audio_language, <<probe_ok, editor_ok>>),
                       probe2_ok)
  /\ pc' = IF ret'.raised # "none" THEN "done" ELSE "subtitle"
  /\ UNCHANGED << pipelineVars, exit_code, call >>

\* `if subtitle_language:` with its try block, then `return result`.
ByLanguageSubtitle ==
  /\ pc = "subtitle"
  /\ IF call.subtitle_language = NoStr
       THEN ret' = ret
       ELSE \E probe_ok, editor_ok, probe2_ok \in BOOLEAN :
              ret' = ByLanguageBlock("subtitle", "subtitles", call.subtitle_language,
                       set_default_track(call.file, ret.streams, NoTrack, "subtitles",
                                         call.subtitle_language, <<probe_ok, editor_ok>>),
                       probe2_ok)
  /\ pc' = "done"
  /\ UNCHANGED << pipelineVars, exit_code, call >>

NextTracks ==
  \/ ApplySetDefaultTrack
  \/ ByLanguageAudio
  \/ ByLanguageSubtitle

SpecTracks == InitTracks /\ [][NextTracks]_vars

\* ------------------------------ entry points and supported formats
SUPPORTED_FORMATS == {".mkv", ".mp4", ".m4v", ".avi", ".webm", ".ts", ".m2ts"}

\* Paths of the entry-point runs, in ascending Path order: a supported
\* extension, one in upper case, and an unsupported one.
FormatPaths ==
  << [dir |-> "a", stem |-> "x", ext |-> ".mkv"],
     [dir |-> "a", stem |-> "y", ext |-> ".MP4"],
     [dir |-> "a", stem |-> "z", ext |-> ".txt"] >>

\* str.lower() on the extensions of FormatPaths.
LowerExt(ext) == IF ext = ".MP4" THEN ".mp4" ELSE ext

\* Path(file_path).suffix.lower() in SUPPORTED_FORMATS
is_supported_format(file_path) == LowerExt(file_path.ext) \in SUPPORTED_FORMATS

\* The position of a path in Path order.
PathRank(p) == CHOOSE k \in 1..Len(FormatPaths) : FormatPaths[k] = p

\* sorted(Path(p) for p in input_pattern)
RECURSIVE SortedPaths(_)
SortedPaths(fs) ==
  IF fs = <<>> THEN <<>>
  ELSE LET k == CHOOSE i \in 1..Len(fs) :
                  \A j \in 1..Len(fs) : PathRank(fs[i]) <= PathRank(fs[j])
       IN <<fs[k]>> \o
          SortedPaths(SubSeq(fs, 1, k - 1) \o SubSeq(fs, k + 1, Len(fs)))

\* resolve_input_files on a list, filter_supported=True: sorted, then the
\* files of supported format.
resolve_input_files(input_pattern) ==
  LET files == SortedPaths(input_pattern)
  IN FilterAt(files, {i \in 1..Len(files) : is_supported_format(files[i])}, 1)

FormatLists ==
  UNION { [1..n -> SeqToSet(FormatPaths)] : n \in 0..MaxFiles }

\* The public entry points, each with the pipeline operation it runs.
EntryPoints ==
  { [fn |-> "extract_and_merge", mode |-> "sequential"],
    [fn |-> "extract_to_separate_files", mode |-> "separate"],
    [fn |-> "extract_chapters", mode |-> "sequential"],
    [fn |-> "extract_chapters_to_separate_files", mode |-> "separate"] }

\* An entry point is called with a list of paths.
InitFormats ==
  /\ call \in [fn : {e.fn : e \in EntryPoints}, input_pattern : FormatLists]
  /\ mode = (CHOOSE e \in EntryPoints : e.fn = call.fn).mode
  /\ input_files = call.input_pattern
  /\ pc = "entry"
  /\ raised = "none"
  /\ idx = 0
  /\ results = <<>>
  /\ file_chapters = <<>>
  /\ total_matches = 0
  /\ temp_dir = "none"
  /\ fc_i = 1
  /\ ch_i = 0
  /\ all_segments = <<>>
  /\ tasks = <<>>
  /\ task_state = <<>>
  /\ segment_results = <<>>
  /\ extraction_errors = <<>>
  /\ result = NewResult(NoPath)
  /\ matching = <<>>
  /\ scan_log = <<>>
  /\ cut_calls = {}
  /\ merge_calls = <<>>
  /\ outputs_written = {}
  /\ exit_code = <<>>
  /\ ret = NoRet

\* extract_and_merge / extract_to_separate_files called directly: the method
\* takes input_files as given and starts its loop.
EnterMethod ==
  /\ pc = "entry"
  /\ call.fn \in {"extract_and_merge", "extract_to_separate_files"}
  /\ pc' = IF mode = "separate" THEN "enter" ELSE "scan"
  /\ UNCHANGED pipelineVars
  /\ UNCHANGED outerVars

\* extract_chapters / extract_chapters_to_separate_files: the list goes
\* through resolve_input_files, then the method is called.
EnterResolved ==
  /\ pc = "entry"
  /\ call.fn \in {"extract_chapters", "extract_chapters_to_separate_files"}
  /\ input_files' = resolve_input_files(call.input_pattern)
  /\ pc' = IF mode = "separate" THEN "enter" ELSE "scan"
  /\ UNCHANGED << mode, raised, idx, results, file_chapters, total_matches,
                  temp_dir, result, matching, scan_log, extractVars >>
  /\ UNCHANGED outerVars

NextFormats ==
  \/ EnterMethod
  \/ EnterResolved
  \/ ScanNotFound
  \/ ScanProbeError
  \/ ScanProbeOther
  \/ ScanNoChapters
  \/ ScanMatched
  \/ ZeroMatches
  \/ BeginExtract
  \/ SeqExtractOk
  \/ SeqExtractFail
  \/ NoMerge
  \/ MergeOk
  \/ MergeFail
  \/ SepEnter
  \/ SepScanMatched
  \/ SepExtractOk
  \/ SepExtractFail
  \/ SepExtractOther
  \/ SepMergeOk
  \/ SepMergeFail
  \/ SepMergeOther
  \/ SepReturn

SpecFormats == InitFormats /\ [][NextFormats]_vars

\* ------------------------------------------------------------ get_chapters
\* Most chapters in the probe output of a get_chapters call.
MaxProbed == 3

\* chapter_data.get("tags", {}): without a title key, with an empty title,
\* or with a title.
ProbeTags == { <<>> } \cup [ {"title"} -> {<<>>} \cup Titles ]

ProbeOutputs == UNION { [1..n -> ProbeTags] : n \in 0..MaxProbed }

\* f"Chapter {n}" as a sequence of characters (n has one digit here).
DefaultTitle(n) == << "C", "h", "a", "p", "t", "e", "r", " ", ToString(n) >>

\* The loop of get_chapters over data["chapters"], tags given per chapter:
\* title = tags.get("title", f"Chapter {idx + 1}"), index = idx.
get_chapters(data) ==
  [i \in 1..Len(data) |->
     [ title |-> IF "title" \in DOMAIN data[i]
                   THEN data[i]["title"] ELSE DefaultTitle(i),
       index |-> i - 1 ]]

\* get_chapters is called; data is what the probe prints if it succeeds.
InitProbe ==
  /\ PipelineIdle
  /\ pc = "call"
  /\ call \in [fn : {"get_chapters"}, data : ProbeOutputs]
  /\ ret = NoRet

ApplyGetChapters ==
  /\ pc = "call"
  /\ call.fn = "get_chapters"
  /\ ret' = [raised |-> "none", chapters |-> get_chapters(call.data)]
  /\ pc' = "done"
  /\ UNCHANGED << pipelineVars, exit_code, call >>

\* The file is missing, ffprobe exits non-zero or its output is no JSON:
\* ChapterExtractionError.
GetChaptersFails ==
  /\ pc = "call"
  /\ call.fn = "get_chapters"
  /\ \E why \in {"missing", "probe", "json"} :
       ret' = [raised |-> CEE, why |-> why]
  /\ pc' = "done"
  /\ UNCHANGED << pipelineVars, exit_code, call >>

NextProbe ==
  \/ ApplyGetChapters
  \/ GetChaptersFails

SpecProbe == InitProbe /\ [][NextProbe]_vars

\* ------------------------------------------- runs with an invalid pattern
\* re.error, raised by re.compile(pattern, flags) on a pattern that does not
\* compile; a subclass of Exception, not of ChapterExtractionError.
ReError == "re.error"

\* extract_and_merge (sequential or parallel) or extract_to_separate_files
\* is called with a pattern that does not compile.
InitBadPattern ==
  /\ mode \in {"sequential", "parallel", "separate"}
  /\ input_files \in InputLists
  /\ pc = IF mode = "separate" THEN "enter" ELSE "scan"
  /\ call = [fn |-> "pipeline", pattern |-> "[invalid(regex"]
  /\ raised = "none"
  /\ idx = 0
  /\ results = <<>>
  /\ file_chapters = <<>>
  /\ total_matches = 0
  /\ temp_dir = "none"
  /\ fc_i = 1
  /\ ch_i = 0
  /\ all_segments = <<>>
  /\ tasks = <<>>
  /\ task_state = <<>>
  /\ segment_results = <<>>
  /\ extraction_errors = <<>>
  /\ result = NewResult(NoPath)
  /\ matching = <<>>
  /\ scan_log = <<>>
  /\ cut_calls = {}
  /\ merge_calls = <<>>
  /\ outputs_written = {}
  /\ exit_code = <<>>
  /\ ret = NoRet

\* The probe returns chapters and _filter_chapters calls
\* filter_chapters_by_regex, whose re.compile raises re.error inside the
\* file's try block: `except Exception` records it on the file's result,
\* which keeps chapters_found, and the loop goes on.
ScanBadPattern ==
  /\ Scanning
  /\ call.fn = "pipeline"
  /\ scan_log' = Append(scan_log, "bad_pattern")
  /\ \E titles \in ProbeTitles(SumFound(results)) :
       results' = Append(results,
         [NewResult(InputPath) EXCEPT !.chapters_found = Len(titles),
                                      !.success = FALSE,
                                      !.error_message = ReError])
  /\ idx' = idx + 1
  /\ UNCHANGED << mode, input_files, pc, raised, file_chapters, total_matches,
                  temp_dir, result, matching, extractVars >>
  /\ UNCHANGED outerVars

NextBadPattern ==
  \/ ScanNotFound
  \/ ScanProbeError
  \/ ScanProbeOther
  \/ ScanNoChapters
  \/ ScanBadPattern
  \/ ZeroMatches
  \/ SepEnter
  \/ SepReturn

SpecBadPattern == InitBadPattern /\ [][NextBadPattern]_vars

\* ------------------------------------------------------------ properties
MergeMode == mode \in {"sequential", "parallel"}

\* Segment a precedes segment b in (input position, chapter position) order.
Before(a, b) == a.pos < b.pos \/ (a.pos = b.pos /\ a.ch < b.ch)

Ordered(segs) ==
  \A i, j \in 1..Len(segs) : i < j => Before(segs[i], segs[j])

\* The <<input position, ch_idx>> whose extraction was invoked with `outcome`.
Cut(outcome) == {<<c[1], c[2]>> : c \in {d \in cut_calls : d[3] = outcome}}

\* extract_and_merge has left its extraction phase.
ExtractionOver ==
  /\ MergeMode
  /\ \/ pc \in {"merge", "returned"}
     \/ pc = "raised" /\ merge_calls # <<>>

\* C1: every segment list extract_and_merge hands to the merge is in
\* (position of the source file in input_files, position of the chapter in
\* the file's filtered list) order, in sequential and in parallel mode.
C1_MergeListOrdered ==
  MergeMode =>
    /\ pc = "merge" => Ordered(all_segments)
    /\ \A c \in 1..Len(merge_calls) : Ordered(merge_calls[c].segments)

\* Parallel run whose completions were collected against chapter order and
\* whose merge received several segments.
C1_Witness ==
  /\ mode = "parallel"
  /\ merge_calls # <<>>
  /\ Len(merge_calls[1].segments) >= 3
  /\ \E r \in 1..Len(results) :
       /\ Len(results[r].chapters_extracted) >= 2
       /\ results[r].chapters_extracted[1].index > results[r].chapters_extracted[2].index

\* C2: for the same scanned input and the same failing extractions, parallel
\* mode returns the segment list sequential mode returns.
C2_ParallelEqualsSequential ==
  (mode = "parallel" /\ pc = "merge") =>
    all_segments = SequentialSegments(file_chapters, Cut("failed"))

\* The sequential actions return what SequentialSegments computes.
SequentialSegmentsAgree ==
  (mode = "sequential" /\ pc = "merge") =>
    all_segments = SequentialSegments(file_chapters, Cut("failed"))

\* C3: a returned result list has one result per input file, in input order.
C3_OneResultPerInput ==
  pc = "returned" =>
    /\ Len(results) = Len(input_files)
    /\ \A i \in 1..Len(input_files) : results[i].source_file = input_files[i]

\* A returned list holding a missing file and a file whose extraction failed.
C3_Witness ==
  /\ pc = "returned"
  /\ Len(input_files) = 2
  /\ \E i, j \in 1..Len(results) :
       /\ results[i].error_message = "File not found"
       /\ results[j].chapters_matched > 0 /\ ~results[j].success

C5_SeparateRecoversLocally ==
  mode = "separate" =>
    \A f \in Cut("failed") :
      /\ ~(pc = "raised" /\ f[1] = idx + 1)
      /\ f[1] <= Len(results) =>
           (~results[f[1]].success /\ results[f[1]].error_message # NoMsg)

\* C6: after a merge, output_file is the merged path for every result with an
\* extracted chapter (failed or not) and None for the others.
C6_OutputForEveryContributor ==
  (MergeMode /\ pc = "returned" /\ merge_calls # <<>>) =>
    \A r \in 1..Len(results) :
      results[r].output_file =
        IF results[r].chapters_extracted # <<>> THEN OutputPath ELSE NoPath

\* C6 (amended): after a merge, output_file is the merged path for every
\* result that is successful and has an extracted chapter, and None for the
\* others.
C6_OutputForSuccessfulContributor ==
  (MergeMode /\ pc = "returned" /\ merge_calls # <<>>) =>
    \A r \in 1..Len(results) :
      results[r].output_file =
        IF results[r].success /\ results[r].chapters_extracted # <<>>
          THEN OutputPath ELSE NoPath

\* A returned merge run with a failed file that contributed a chapter and a
\* successful file that did.
C6_Witness ==
  /\ MergeMode /\ pc = "returned" /\ merge_calls # <<>>
  /\ \E r, q \in 1..Len(results) :
       /\ ~results[r].success /\ results[r].chapters_extracted # <<>>
       /\ results[r].output_file = NoPath
       /\ results[q].success /\ results[q].output_file = OutputPath

C8_NothingAfterFailure ==
  MergeMode =>
    \A c \in 1..Len(merge_calls) :
      \A sg \in SeqToSet(merge_calls[c].segments) :
        \A f \in Cut("failed") : ~(f[1] = sg.pos /\ f[2] < sg.ch)

\* Matched chapters counted over the results.
RECURSIVE SumMatched(_)
SumMatched(rs) ==
  IF rs = <<>> THEN 0 ELSE Head(rs).chapters_matched + SumMatched(Tail(rs))

\* C9: extract_and_merge over inputs whose matched chapters total zero ends
\* with ChapterExtractionError, and then nothing was extracted, merged or
\* written and no temporary directory was made.
C9_ZeroMatchesRaises ==
  (MergeMode /\ pc # "scan" /\ idx = Len(input_files) /\ SumMatched(results) = 0) =>
    /\ pc = "raised" /\ raised = CEE
    /\ cut_calls = {} /\ merge_calls = <<>> /\ outputs_written = {}
    /\ temp_dir = "none"

\* The run over a missing file and a file with chapters but no match raised.
C9_Witness ==
  /\ MergeMode
  /\ pc = "raised"
  /\ scan_log = <<"missing", "chapters">>
  /\ results[2].chapters_found > 0 /\ results[2].chapters_matched = 0

\* C10: once an existing input file has probed to zero chapters,
\* extract_and_merge is left by ChapterExtractionError with nothing extracted
\* or merged, wherever the file stands.
C10_NoChaptersRaises ==
  (MergeMode /\ \E i \in 1..Len(scan_log) : scan_log[i] = "no_chapters") =>
    /\ pc = "raised" /\ raised = CEE
    /\ cut_calls = {} /\ merge_calls = <<>> /\ outputs_written = {}

\* The second file probed to zero chapters after a first file with matches.
C10_Witness ==
  /\ MergeMode
  /\ scan_log = <<"chapters", "no_chapters">>
  /\ results[1].chapters_matched > 0
  /\ pc = "raised"

\* The input at position i was met missing: its result is the failed
\* "File not found" entry, it was never probed (no chapter counted or queued)
\* and nothing was extracted from it.
MissingEntry(i) ==
  /\ i <= Len(results)
  /\ results[i] = [NewResult(input_files[i]) EXCEPT
                     !.success = FALSE, !.error_message = "File not found"]
  /\ \A k \in 1..Len(file_chapters) : file_chapters[k].pos # i
  /\ \A c \in cut_calls : c[1] # i

\* The input positions whose path did not exist, at any position where the
\* scan has met that path.
Missing ==
  {i \in 1..Len(scan_log) :
     \A j \in 1..Len(scan_log) :
       input_files[j] = input_files[i] => scan_log[j] = "missing"}

\* C11: a missing input path yields the failed "File not found" result, is
\* never probed, and the call goes on with the remaining files and returns a
\* result list holding that entry, for every input list with a missing path:
\* such a call is never left by an exception.
C11_MissingAlwaysReturns ==
  \A i \in Missing : MissingEntry(i) /\ idx >= i /\ pc # "raised"

\* C11 (amended): a missing input path yields the failed "File not found"
\* result, is never probed and never ends the call itself: the scan goes on
\* with the next file, and every list the call returns has one result per
\* input with that entry at the missing file's position.
C11_MissingRecoveredLocally ==
  \A i \in Missing :
    /\ MissingEntry(i)
    /\ idx >= i
    /\ pc = "returned" => Len(results) = Len(input_files)

\* A returned run whose first input was missing and whose second input was
\* extracted and written.
C11_Witness ==
  /\ pc = "returned"
  /\ Len(results) = 2
  /\ 1 \in Missing
  /\ results[2].output_file # NoPath

\* C12: in parallel mode the merge never starts while a task is pending or
\* running: when extract_and_merge is at the merge, and whenever
\* _merge_segments has been called, every submitted task has run and been
\* collected, so none is left to start afterwards.
C12_MergeAfterAllTasks ==
  (mode = "parallel" /\ (pc = "merge" \/ merge_calls # <<>>)) =>
    \A t \in 1..Len(tasks) :
      /\ task_state[t] = "collected"
      /\ <<tasks[t].pos, tasks[t].ch_idx>> \in Cut("ok") \cup Cut("failed")

\* A parallel run of three tasks whose merge has been called.
C12_Witness ==
  /\ mode = "parallel"
  /\ Len(tasks) = 3
  /\ merge_calls # <<>>

\* No path occurs twice in input_files.
DistinctInputs ==
  \A i, j \in 1..Len(input_files) : input_files[i] = input_files[j] => i = j

\* The extraction tasks that have run, as <<input position, ch_idx>>.
TasksRun == Cut("ok") \cup Cut("failed")

\* C13: over distinct input paths, two distinct extraction tasks of
\* extract_and_merge (distinct input file or chapter ordinal) write distinct
\* segment paths in the temporary directory, and no segment path is twice in
\* a merge list.
C13_SegmentPathsDistinct ==
  (MergeMode /\ DistinctInputs) =>
    /\ \A a, b \in TasksRun :
         a # b => SegmentFile(input_files[a[1]], a[2]) #
                  SegmentFile(input_files[b[1]], b[2])
    /\ \A c \in 1..Len(merge_calls) :
         \A i, j \in 1..Len(merge_calls[c].segments) :
           i # j => merge_calls[c].segments[i].file # merge_calls[c].segments[j].file

\* extract_to_separate_files: the positions whose file had chapters, none of
\* them matching.
SepZeroMatch ==
  {i \in 1..Len(results) :
     scan_log[i] = "chapters" /\ results[i].chapters_matched = 0}

\* C14: in extract_to_separate_files a file whose filter matches nothing gets
\* a successful result with chapters_matched = 0 and no output file, nothing
\* is extracted or merged for it, the loop goes on to the next file, and the
\* call is never left because of it: an exception leaves the call only at a
\* file whose probe failed, which has no chapters, or whose own extraction or
\* merge failed, and a run reaching the end of the list returns.
C14_ZeroMatchIsSuccess ==
  mode = "separate" =>
    /\ \A i \in SepZeroMatch :
         /\ results[i] = [NewResult(input_files[i]) EXCEPT
                            !.chapters_found = results[i].chapters_found]
         /\ results[i].chapters_found > 0
         /\ \A c \in cut_calls : c[1] # i
         /\ \A c \in 1..Len(merge_calls) :
              \A sg \in SeqToSet(merge_calls[c].segments) : sg.pos # i
         /\ idx >= i
    /\ pc = "raised" =>
         /\ idx < Len(input_files)
         /\ Len(scan_log) = idx + 1
         /\ \/ scan_log[idx + 1] \in {"probe_error", "no_chapters"}
            \/ /\ result.chapters_matched > 0
               /\ \/ <<idx + 1, ch_i, "failed">> \in cut_calls
                  \/ /\ merge_calls # <<>>
                     /\ merge_calls[Len(merge_calls)].outcome = "failed"
    /\ (idx = Len(input_files) /\ pc \notin {"enter", "scan"}) => pc = "returned"

\* A returned run whose first file matched nothing and whose second file was
\* still extracted and written.
C14_Witness ==
  /\ mode = "separate"
  /\ pc = "returned"
  /\ Len(results) = 2
  /\ 1 \in SepZeroMatch
  /\ results[2].output_file # NoPath

\* C15: in extraction mode main returns 0 exactly when the pipeline call
\* returned a list whose results all have success = true, and 1 when a result
\* failed or the call raised, with -s and with -o alike.
C15_ExitCodeReflectsResults ==
  pc = "exited" =>
    /\ exit_code \in {<<0>>, <<1>>}
    /\ exit_code = <<0>> <=>
         (raised = "none" /\ \A r \in 1..Len(results) : results[r].success)

\* main returned 0 after a separate-mode run over two files, one written and
\* one without a match.
C15_Witness ==
  /\ pc = "exited"
  /\ exit_code = <<0>>
  /\ mode = "separate"
  /\ Len(results) = 2
  /\ \E r \in 1..2 : results[r].output_file # NoPath

\* C16: in every result list a pipeline call returns, each result with
\* success = false has an error_message that is not None.
C16_FailedHasMessage ==
  pc = "returned" =>
    \A r \in 1..Len(results) :
      ~results[r].success => results[r].error_message # NoMsg

\* A returned parallel run holding a missing file and a file failed by the
\* "mark failed files" pass.
C16_Witness ==
  /\ pc = "returned"
  /\ mode = "parallel"
  /\ \E r, q \in 1..Len(results) :
       /\ ~results[r].success /\ results[r].error_message = "File not found"
       /\ ~results[q].success /\ results[q].error_message = "extract failed"

\* C17: once extract_and_merge or extract_to_separate_files has finished,
\* returned or raised, the temporary directory it worked in does not exist.
C17_TempDirGone ==
  pc \in {"returned", "raised"} => temp_dir # "exists"

\* A call left by a failing merge, after segments were written to the
\* temporary directory, which is deleted.
C17_Witness ==
  /\ pc = "raised"
  /\ Cut("ok") # {}
  /\ merge_calls # <<>>
  /\ temp_dir = "deleted"

FilterDone ==
  /\ pc = "done"
  /\ call.fn \in {"filter_chapters_by_keyword", "filter_chapters_by_regex"}

\* C18: for every chapter list, equal chapters included, every keyword or
\* valid pattern and either case_sensitive, the exclude=True result and the
\* exclude=False result of a filter partition the input: some split of the
\* list's positions gives the two results as the two subsequences in input
\* order, and no chapter is in both.
C18_ExcludeIsComplement ==
  FilterDone =>
    LET n == Len(call.chapters)
    IN /\ \E keep \in SUBSET (1..n) :
            /\ ret.include = FilterAt(call.chapters, keep, 1)
            /\ ret.exclude = FilterAt(call.chapters, (1..n) \ keep, 1)
       /\ SeqToSet(ret.include) \cap SeqToSet(ret.exclude) = {}

\* A case-insensitive regex call over a list with two equal chapters whose
\* two results are both non-empty.
C18_Witness ==
  /\ FilterDone
  /\ call.fn = "filter_chapters_by_regex"
  /\ ~call.case_sensitive
  /\ call.needle.lit = <<"E">>
  /\ Len(call.chapters) = 3
  /\ call.chapters[1] = call.chapters[3]
  /\ ret.include # <<>>
  /\ ret.exclude # <<>>

\* A set_default_track call has returned without an exception.
SetDefaultSucceeded ==
  /\ pc = "done"
  /\ call.fn = "set_default_track"
  /\ ret.raised = "none"

\* C19: a successful set_default_track runs the editor exactly once, with one
\* command whose edits clear flag-default on every track of the target's type
\* (and on no other track) and then, last, set flag-default=1 on the target;
\* after the call the target is the only default track of its type and the
\* tracks of other types are as they were.
C19_OneCommandClearsThenSets ==
  SetDefaultSucceeded =>
    LET before == get_tracks(call.streams)
        same == {before[i].id : i \in {j \in 1..Len(before) :
                                          before[j].type = ret.target_type}}
    IN /\ Len(ret.cmds) = 1
       /\ LET e == ret.cmds[1]
              n == Len(e)
          IN /\ n >= 2
             /\ e[n] = [track |-> ret.target, flag_default |-> 1]
             /\ \A i \in 1..(n - 1) : e[i].flag_default = 0
             /\ {e[i].track : i \in 1..(n - 1)} = same
       /\ ret.target \in same
       /\ call.track_id # NoTrack => ret.target = call.track_id
       /\ call.track_id = NoTrack =>
            /\ ret.target_type = call.track_type
            /\ before[ret.target + 1].language = call.language
       /\ Len(ret.streams) = Len(call.streams)
       /\ \A i \in 1..Len(ret.streams) :
            IF call.streams[i].type = ret.target_type
              THEN ret.streams[i] =
                     [call.streams[i] EXCEPT !.default = (i - 1 = ret.target)]
              ELSE ret.streams[i] = call.streams[i]

\* A successful call by type and language on a file with three tracks, where
\* another track of the target's type was the default and a track of the
\* other type keeps its default flag.
C19_Witness ==
  /\ SetDefaultSucceeded
  /\ call.track_id = NoTrack
  /\ Len(call.streams) = 3
  /\ \E i, j \in 1..3 :
       /\ call.streams[i].type = ret.target_type
       /\ i - 1 # ret.target
       /\ call.streams[i].default /\ ~ret.streams[i].default
       /\ call.streams[j].type # ret.target_type
       /\ ret.streams[j].default

\* C20: set_default_tracks_by_language swallows only the per-language "track
\* not found" condition: when the editor is not available or exits non-zero
\* (or anything else fails) the call does not go on to return a result, it
\* is left by ChapterExtractionError.
C20_OnlyNotFoundSwallowed ==
  call.fn = "set_default_tracks_by_language" =>
    \A k \in 1..Len(ret.swallowed) : ret.swallowed[k] = "not_found"

ByLanguageDone ==
  /\ pc = "done"
  /\ call.fn = "set_default_tracks_by_language"

\* C21: set_default_tracks_by_language does the audio and the subtitle
\* operation independently: a track not found for one language does not
\* raise, and the returned entry of each of audio/subtitle is the id of the
\* track this call made default for that type, None exactly when it made none.
C21_ReturnsWhatWasSet ==
  ByLanguageDone =>
    /\ (\E k \in 1..Len(ret.swallowed) : ret.swallowed[k] = "not_found") =>
         ret.raised = "none"
    /\ ret.raised = "none" => ret.value = ret.applied

\* The input positions whose file was probed.
Probed == {i \in 1..Len(scan_log) : scan_log[i] # "missing"}

\* C22: a file whose extension is not a supported one (compared in lower
\* case) is never probed, extracted or merged, whichever entry point
\* (extract_and_merge, extract_to_separate_files, extract_chapters,
\* extract_chapters_to_separate_files) received it.
C22_UnsupportedNeverProcessed ==
  /\ \A i \in Probed : is_supported_format(input_files[i])
  /\ \A c \in cut_calls : is_supported_format(input_files[c[1]])
  /\ \A c \in 1..Len(merge_calls) :
       \A sg \in SeqToSet(merge_calls[c].segments) :
         is_supported_format(input_files[sg.pos])

\* <output_dir if given, else F's directory>/{F's stem}{suffix}.{F's extension}
SourceExtOutFile(input_path) ==
  [ dir |-> IF OutputDir # "None" THEN OutputDir ELSE input_path.dir,
    stem |-> input_path.stem \o OutputSuffix,
    ext |-> input_path.ext ]

\* C23: in extract_to_separate_files every file with a match whose merge
\* succeeded was merged into <output_dir or its own directory>/
\* {stem}{suffix}.{its own extension}, and its result.output_file is that
\* path.
C23_OutputKeepsSourceExtension ==
  mode = "separate" =>
    /\ \A i \in 1..Len(results) :
         (results[i].success /\ results[i].chapters_matched > 0) =>
           results[i].output_file = SourceExtOutFile(input_files[i])
    /\ \A c \in 1..Len(merge_calls) :
         \E i \in 1..Len(input_files) :
           merge_calls[c].output = SourceExtOutFile(input_files[i])

\* C24: get_chapters returns one chapter per probed chapter, in probe order
\* with index = 0-based position; the title is "Chapter n" (n the 1-based
\* position) when the source title tag is absent or empty, and the source
\* title otherwise.
C24_DefaultTitles ==
  (pc = "done" /\ call.fn = "get_chapters" /\ ret.raised = "none") =>
    /\ Len(ret.chapters) = Len(call.data)
    /\ \A i \in 1..Len(call.data) :
         /\ ret.chapters[i].index = i - 1
         /\ ret.chapters[i].title =
              IF "title" \in DOMAIN call.data[i] /\ call.data[i]["title"] # <<>>
                THEN call.data[i]["title"]
                ELSE DefaultTitle(i)

\* The matched chapters of the file at input position i, as queued by the
\* scan of extract_and_merge.
MatchedAt(i) ==
  LET ks == {k \in 1..Len(file_chapters) : file_chapters[k].pos = i}
  IN IF ks = {} THEN {} ELSE SeqToSet(file_chapters[CHOOSE k \in ks : TRUE].matching)

\* C25: in every returned list, for every result,
\* len(chapters_extracted) <= chapters_matched <= chapters_found and every
\* extracted chapter is one of that file's matched chapters, also when a path
\* occurs more than once in input_files.
C25_CountsOrdered ==
  pc = "returned" =>
    \A r \in 1..Len(results) :
      /\ Len(results[r].chapters_extracted) <= results[r].chapters_matched
      /\ results[r].chapters_matched <= results[r].chapters_found
      /\ \A ch \in SeqToSet(results[r].chapters_extracted) :
           /\ KeywordMatch(ch, Keyword, CaseSensitive)
           /\ ch.index < results[r].chapters_found
           /\ MergeMode => ch \in MatchedAt(r)

\* C26: in every returned result chapters_extracted is in the file's filtered
\* chapter order (an order-preserving subsequence of its matched chapters,
\* whose index grows along the list), in sequential mode and in parallel
\* mode for every completion order; stated over lists of distinct paths.
C26_ExtractedInChapterOrder ==
  (pc = "returned" /\ DistinctInputs) =>
    \A r \in 1..Len(results) :
      \A i, j \in 1..Len(results[r].chapters_extracted) :
        i < j => results[r].chapters_extracted[i].index <
                 results[r].chapters_extracted[j].index

\* The filter was called with the invalid pattern.
PatternCompiled == \E i \in 1..Len(scan_log) : scan_log[i] = "bad_pattern"

\* C27: with a pattern that does not compile, extract_and_merge and
\* extract_to_separate_files are left by re.error as soon as the filter is
\* called, before any extraction; the error is not turned into a failed
\* result of the file nor into a ChapterExtractionError.
C27_InvalidPatternPropagates ==
  PatternCompiled =>
    /\ pc = "raised"
    /\ raised = ReError
    /\ cut_calls = {}
    /\ \A r \in 1..Len(results) : results[r].error_message # ReError

\* C28: when extract_to_separate_files is left by an exception, that
\* invocation has written no output file: an abort never leaves the merged
\* outputs of earlier input files behind.
C28_AbortLeavesNoOutput ==
  (mode = "separate" /\ pc = "raised") => outputs_written = {}

\* Every input file has been scanned, in input order: one result per file,
\* at the file's position.
ScanComplete ==
  /\ idx = Len(input_files)
  /\ Len(scan_log) = Len(input_files)
  /\ Len(results) = Len(input_files)
  /\ \A i \in 1..Len(results) : results[i].source_file = input_files[i]

\* C29: in extract_and_merge, sequential or parallel, files are scanned one
\* at a time in input order and no cut or merge is invoked before every
\* input file has been scanned; a run that is aborted during the scan has
\* invoked no cut and no merge.
C29_ScanBeforeExtraction ==
  MergeMode =>
    /\ Len(scan_log) <= Len(input_files)
    /\ \A i \in 1..Len(results) : results[i].source_file = input_files[i]
    /\ (pc \in {"extract", "collect", "merge"} \/ cut_calls # {}
          \/ merge_calls # <<>> \/ temp_dir # "none") => ScanComplete
    /\ (pc = "raised" /\ ~ScanComplete) => (cut_calls = {} /\ merge_calls = <<>>)
    /\ (pc = "raised" /\ total_matches = 0) =>
         (cut_calls = {} /\ merge_calls = <<>>)

\* Both files of a parallel run were scanned before the first cut.
C29_Witness ==
  /\ mode = "parallel"
  /\ Len(input_files) = MaxFiles
  /\ pc = "collect"
  /\ cut_calls # {}
  /\ ScanComplete

\* The bookkeeping of a parallel extraction.
Bookkeeping == << results, segment_results, extraction_errors >>

\* C30: in parallel mode a worker task only invokes the cut and returns its
\* outcome; the results, segment_results and extraction_errors are written
\* only by the control thread, when it collects one completed task or marks
\* the failed files after the last one, so a result never has two writers.
C30_OnlyControlThreadWrites ==
  [][(mode = "parallel" /\ pc = "collect") =>
       /\ (\E t \in 1..Len(tasks) :
             task_state[t] = "pending" /\ task_state'[t] # "pending")
            => Bookkeeping' = Bookkeeping
       /\ Bookkeeping' # Bookkeeping =>
            \/ pc' = "merge"
            \/ \E t \in 1..Len(tasks) :
                 /\ task_state[t] \in {"ok", "failed"}
                 /\ task_state'[t] = "collected"
                 /\ \A u \in 1..Len(tasks) \ {t} : task_state'[u] = task_state[u]
                 /\ cut_calls' = cut_calls]_vars

\* One completion has been collected and recorded while another worker has
\* returned and a third cut has not run yet.
C30_Witness ==
  /\ mode = "parallel" /\ pc = "collect"
  /\ \E t, u, v \in 1..Len(tasks) :
       /\ task_state[t] = "collected"
       /\ task_state[u] = "ok"
       /\ task_state[v] = "pending"
  /\ \E r \in 1..Len(results) : results[r].chapters_extracted # <<>>

====
